---- MODULE Spec2Model ----
(***************************************************************************)
(* Model of the recurring Task Scheduler of agentworks                     *)
(* (src-tauri/src/scheduler.rs) and of the commands and background loop    *)
(* that drive it (src-tauri/src/main.rs).                                  *)
(*                                                                         *)
(* Time is a count of sub-second units since a Sunday 00:00:00.  chrono's  *)
(* with_second/with_minute/with_hour replace one field and keep the        *)
(* others, the sub-second part included, so the model keeps a sub-second   *)
(* part as well.                                                           *)
(***************************************************************************)
EXTENDS Integers, Sequences, FiniteSets, TLC

\* ------------------------------------------------------------------------
\* Bounds of the model
\* ------------------------------------------------------------------------
\* sub-second units per second (chrono keeps nanoseconds)
SubPerSec == 2
\* number of clock advances in one behaviour
MaxAdvances == 2
\* number of tasks the store holds at once
MaxTasks == 2
\* number of firings recorded in one behaviour
MaxFirings == 2
\* number of commands issued in one behaviour
MaxCommands == 3
\* number of writes of the file that fail in one behaviour
MaxFaults == 1
\* the most periods of a task the clock passes while no tick comes
MaxMissed == 3

\* ------------------------------------------------------------------------
\* Calendar (chrono)
\* ------------------------------------------------------------------------
SecPerMin == 60
MinPerHour == 60
HoursPerDay == 24
DaysPerWeek == 7

Second == SubPerSec
Minute == SecPerMin * Second
Hour == MinPerHour * Minute
Day == HoursPerDay * Hour
Week == DaysPerWeek * Day

\* Option<DateTime<Utc>>::None
None == -1

\* Duration::minutes / hours / days
DurationMinutes(n) == n * Minute
DurationHours(n) == n * Hour
DurationDays(n) == n * Day

\* Timelike / Datelike accessors
second(t) == (t \div Second) % SecPerMin
minute(t) == (t \div Minute) % MinPerHour
hour(t) == (t \div Hour) % HoursPerDay
num_days_from_sunday(t) == (t \div Day) % DaysPerWeek

\* Timelike::with_second, with_minute, with_hour: None when the field is
\* out of range, otherwise the same instant with that one field replaced
with_second(t, s) ==
    IF s >= SecPerMin THEN None ELSE t - second(t) * Second + s * Second
with_minute(t, m) ==
    IF m >= MinPerHour THEN None ELSE t - minute(t) * Minute + m * Minute
with_hour(t, h) ==
    IF h >= HoursPerDay THEN None ELSE t - hour(t) * Hour + h * Hour

\* Option::unwrap_or
unwrap_or(x, d) == IF x = None THEN d ELSE x

\* DateTime::timestamp_millis, as whole seconds and milliseconds
timestamp_millis(t) == <<t \div Second, ((t % Second) * 1000) \div SubPerSec>>

\* ------------------------------------------------------------------------
\* Schedule policies
\* ------------------------------------------------------------------------
Interval(n) == [type |-> "Interval", minutes |-> n, day |-> 0, at_hour |-> 0, at_minute |-> 0]
Hourly(m) == [type |-> "Hourly", minutes |-> 0, day |-> 0, at_hour |-> 0, at_minute |-> m]
Daily(h, m) == [type |-> "Daily", minutes |-> 0, day |-> 0, at_hour |-> h, at_minute |-> m]
Weekly(d, h, m) == [type |-> "Weekly", minutes |-> 0, day |-> d, at_hour |-> h, at_minute |-> m]

\* no tie-break at all: the slot of the current period is returned
PushForwardNever(next, now, period) == next

\* a tie-break that leaves a slot equal to now where it is
PushForwardStrict(next, now, period) ==
    IF next < now THEN next + period ELSE next

\* the tie-break of calculate_next_run: a slot that is not after now is
\* pushed forward by one period
PushForward(next, now, period) ==
    IF next <= now THEN next + period ELSE next

\* TaskScheduler::calculate_next_run, with the Utc::now() it reads as `now`
calculate_next_run(schedule_type, now) ==
    CASE schedule_type.type = "Interval" ->
            now + DurationMinutes(schedule_type.minutes)
      [] schedule_type.type = "Hourly" ->
            LET n1 == unwrap_or(with_minute(now, schedule_type.at_minute), now)
                n2 == unwrap_or(with_second(n1, 0), now)
            IN  PushForward(n2, now, DurationHours(1))
      [] schedule_type.type = "Daily" ->
            LET n1 == unwrap_or(with_hour(now, schedule_type.at_hour), now)
                n2 == unwrap_or(with_minute(n1, schedule_type.at_minute), now)
                n3 == unwrap_or(with_second(n2, 0), now)
            IN  PushForward(n3, now, DurationDays(1))
      [] schedule_type.type = "Weekly" ->
            LET n1 == unwrap_or(with_hour(now, schedule_type.at_hour), now)
                n2 == unwrap_or(with_minute(n1, schedule_type.at_minute), now)
                n3 == unwrap_or(with_second(n2, 0), now)
                current_day == num_days_from_sunday(n3)
                days_until_target ==
                    IF schedule_type.day >= current_day
                    THEN schedule_type.day - current_day
                    ELSE 7 - (current_day - schedule_type.day)
                n4 == n3 + DurationDays(days_until_target)
            IN  PushForward(n4, now, DurationDays(7))

\* ------------------------------------------------------------------------
\* Inputs
\* ------------------------------------------------------------------------
\* the callers that run operations concurrently: the background loop of
\* main, a command handler, and a second caller of check_and_run_tasks
Procs == {"loop", "cmd", "loop2"}
\* the callers of the commands and of check_and_run_tasks in the program
Commanders == {"cmd"}
Pullers == {"loop"}
\* two callers of check_and_run_tasks at once
BothPullers == {"loop", "loop2"}

\* schedule policies passed to create_task: in range and out of range
Schedules == { Interval(1), Interval(0) }

\* Interval policies only
IntervalSchedules == { Interval(0), Interval(1), Interval(2) }

\* policies of every variant, at the edges of the field ranges and beyond
WideSchedules ==
    { Interval(1), Interval(5), Interval(0),
      Hourly(0), Hourly(30), Hourly(59), Hourly(60),
      Daily(0, 0), Daily(9, 0), Daily(23, 59), Daily(24, 0), Daily(9, 60),
      Weekly(0, 0, 0), Weekly(3, 8, 30), Weekly(6, 23, 59),
      Weekly(7, 8, 30), Weekly(3, 24, 0), Weekly(3, 8, 60) }

\* the fields are in the ranges the policy documents
InRange(s) ==
    CASE s.type = "Interval" -> s.minutes >= 1
      [] s.type = "Hourly" -> s.at_minute <= 59
      [] s.type = "Daily" -> s.at_hour <= 23 /\ s.at_minute <= 59
      [] s.type = "Weekly" -> s.day <= 6 /\ s.at_hour <= 23 /\ s.at_minute <= 59

\* the instant the process is started at: a Wednesday, 08:30:29 and a
\* fraction of a second
StartTimes == { 3 * Day + 8 * Hour + 30 * Minute + 29 * Second + 1 }

\* start instants on and off the slots of the policies: Sunday 00:00:00,
\* Monday 07:00:00 and 10:00:00, Wednesday 08:30:00 and 08:30:29.5,
\* Saturday 23:59:59.5
WideTimes ==
    { 0, Day + 7 * Hour, Day + 10 * Hour,
      3 * Day + 8 * Hour + 30 * Minute,
      3 * Day + 8 * Hour + 30 * Minute + 29 * Second + 1,
      6 * Day + 23 * Hour + 59 * Minute + 59 * Second + 1 }

\* task ids: create_task formats "task_<millis>"; any other string can be
\* passed to the scheduler's operations
TaskId(ms) == <<"task_", ms>>
OtherId == <<"other", <<0, 0>>>>

NoTask == {}

VARIABLES
    clock,      \* Utc::now()
    advances,   \* number of clock advances so far
    commands,   \* number of commands issued so far
    faults,     \* number of file writes that are still going to fail
    tasks,      \* TaskScheduler.tasks: id -> Task
    results,    \* TaskScheduler.results
    file,       \* contents of storage_path
    lock,       \* holder of the tasks mutex
    pc,         \* position of each caller
    op,         \* the operation each caller runs, with its local values
    ret,        \* what the last operation of each caller returned
    fired       \* every selection made by a scan, in order

vars == <<clock, advances, commands, faults, tasks, results, file, lock, pc, op, ret, fired>>

\* the file does not exist: no contents; a file is the one string it holds
NoFile == <<>>
\* a file that fs::write has truncated and not written in full
Torn == <<{}, "torn">>
NoLock == "free"
NoOp == [name |-> "none", id |-> OtherId, enabled |-> FALSE, val |-> NoTask,
         now |-> None, to_run |-> <<>>, json |-> <<>>, limit |-> None]
NoRet == [op |-> "none", ok |-> TRUE, err |-> "", at |-> None, val |-> <<>>]

Ok(name, at) == [op |-> name, ok |-> TRUE, err |-> "", at |-> at, val |-> <<>>]
Err(name, e) == [op |-> name, ok |-> FALSE, err |-> e, at |-> None, val |-> <<>>]
\* a successful return that carries a list
OkVal(name, val) == [op |-> name, ok |-> TRUE, err |-> "", at |-> None, val |-> val]

\* ------------------------------------------------------------------------
\* TaskScheduler::new on a fresh data directory, the process started at t
\* ------------------------------------------------------------------------
InitAt(t) ==
    /\ clock = t
    /\ advances = 0
    /\ commands = 0
    /\ faults = 0
    /\ tasks = <<>>
    /\ results = <<>>
    /\ file = NoFile
    /\ lock = NoLock
    /\ pc = [p \in Procs |-> "idle"]
    /\ op = [p \in Procs |-> NoOp]
    /\ ret = [p \in Procs |-> NoRet]
    /\ fired = <<>>

Init == \E t \in StartTimes : InitAt(t)

\* ------------------------------------------------------------------------
\* The clock
\* ------------------------------------------------------------------------
\* the next instant, and the instants at which a stored task falls due
NextInstants ==
    {clock + 1}
        \cup {tasks[id].next_run : id \in {i \in DOMAIN tasks : tasks[i].next_run > clock}}

AdvanceClock ==
    /\ advances < MaxAdvances
    /\ \E t \in NextInstants : clock' = t
    /\ advances' = advances + 1
    /\ UNCHANGED <<commands, faults, tasks, results, file, lock, pc, op, ret, fired>>

\* a simulated clock: once a pull has completed at the current instant and
\* nothing is running, the clock moves on by the period of a stored
\* Interval task
AdvancePeriod ==
    /\ advances < MaxAdvances
    /\ \A p \in Procs : pc[p] = "idle"
    /\ \E p \in Procs : ret[p].op = "pull" /\ ret[p].at = clock
    /\ \E id \in DOMAIN tasks :
        /\ tasks[id].schedule_type.type = "Interval"
        /\ tasks[id].schedule_type.minutes >= 1
        /\ clock' = clock + DurationMinutes(tasks[id].schedule_type.minutes)
    /\ advances' = advances + 1
    /\ UNCHANGED <<commands, faults, tasks, results, file, lock, pc, op, ret, fired>>

\* the period of a policy, in clock units
PeriodOf(s) ==
    CASE s.type = "Interval" -> DurationMinutes(s.minutes)
      [] s.type = "Hourly" -> DurationHours(1)
      [] s.type = "Daily" -> DurationDays(1)
      [] s.type = "Weekly" -> DurationDays(7)

\* no tick comes for a long time (the machine sleeps): the clock passes the
\* next_run of a stored task by several of its periods, to the instant of
\* a slot or just after it
AdvanceFar ==
    /\ advances < MaxAdvances
    /\ \E id \in DOMAIN tasks, n \in 2..MaxMissed, d \in {0, 1} :
        /\ tasks[id].next_run # None
        /\ clock' = tasks[id].next_run + n * PeriodOf(tasks[id].schedule_type) + d
        /\ clock' > clock
    /\ advances' = advances + 1
    /\ UNCHANGED <<commands, faults, tasks, results, file, lock, pc, op, ret, fired>>

\* ------------------------------------------------------------------------
\* Persistence
\* ------------------------------------------------------------------------
\* serde of ScheduleType, #[serde(tag = "type")]: the tag and the fields
\* of the variant
ScheduleJson(s) ==
    CASE s.type = "Interval" -> <<"Interval", s.minutes>>
      [] s.type = "Hourly" -> <<"Hourly", s.at_minute>>
      [] s.type = "Daily" -> <<"Daily", s.at_hour, s.at_minute>>
      [] s.type = "Weekly" -> <<"Weekly", s.day, s.at_hour, s.at_minute>>
ScheduleFromJson(j) ==
    CASE j[1] = "Interval" -> Interval(j[2])
      [] j[1] = "Hourly" -> Hourly(j[2])
      [] j[1] = "Daily" -> Daily(j[2], j[3])
      [] j[1] = "Weekly" -> Weekly(j[2], j[3], j[4])

\* serde of DateTime<Utc>: an RFC 3339 string, the seconds and the
\* fraction of a second
DateJson(t) == <<"Z", t \div Second, t % Second>>
\* a parse that drops the fraction of a second
DateFromJsonSeconds(j) == j[2] * Second
DateFromJson(j) == j[2] * Second + j[3]

\* serde of Option<DateTime<Utc>>: null or the date
OptionDateJson(x) == IF x = None THEN <<"null">> ELSE DateJson(x)
OptionDateFromJson(j) == IF j = <<"null">> THEN None ELSE DateFromJson(j)

\* serde of Task: the fields in the order of the struct
TaskJson(t) ==
    <<t.id, t.name, t.agent_id, t.prompt_template, ScheduleJson(t.schedule_type),
      t.enabled, DateJson(t.created_at), OptionDateJson(t.last_run),
      OptionDateJson(t.next_run), t.run_count>>
TaskFromJson(j) ==
    [id |-> j[1], name |-> j[2], agent_id |-> j[3], prompt_template |-> j[4],
     schedule_type |-> ScheduleFromJson(j[5]), enabled |-> j[6],
     created_at |-> DateFromJson(j[7]), last_run |-> OptionDateFromJson(j[8]),
     next_run |-> OptionDateFromJson(j[9]), run_count |-> j[10]]

\* serde_json::to_string_pretty of the task map: one member per task id
to_string_pretty(ts) == <<{<<id, TaskJson(ts[id])>> : id \in DOMAIN ts}>>
\* serde_json::from_str: one entry per member, under the member's key
from_str(contents) ==
    [id \in {m[1] : m \in contents[1]} |->
        TaskFromJson((CHOOSE m \in contents[1] : m[1] = id)[2])]

\* load_tasks as `new` uses it: a missing file is the empty map, and so is
\* a file that does not parse (the Err is dropped by `if let Ok`)
load_tasks(f) == IF f = NoFile \/ f = Torn THEN <<>> ELSE from_str(f)

\* what `new` leaves for every caller of the new process
Loaded == [NoRet EXCEPT !.op = "new"]

\* the process exits with nothing running and is started again:
\* TaskScheduler::new loads the map from the file, the Result Log is empty
Restart ==
    /\ \A p \in Procs : pc[p] = "idle"
    /\ lock = NoLock
    /\ tasks' = load_tasks(file)
    /\ results' = <<>>
    /\ fired' = <<>>
    /\ op' = [p \in Procs |-> NoOp]
    /\ ret' = [p \in Procs |-> Loaded]
    /\ UNCHANGED <<clock, advances, commands, faults, file, lock, pc>>

\* save_tasks, first half: take the lock and serialize the map
SaveLock(p) ==
    /\ pc[p] = "save"
    /\ lock = NoLock
    /\ lock' = p
    /\ op' = [op EXCEPT ![p].json = to_string_pretty(tasks)]
    /\ pc' = [pc EXCEPT ![p] = "save_write"]
    /\ UNCHANGED <<clock, advances, commands, faults, tasks, results, file, ret, fired>>

\* a save_tasks whose error no caller sees
SaveReturnSwallowsError(o, written) ==
    IF o.name = "pull" THEN Ok("pull", o.now) ELSE Ok(o.name, None)

\* what the caller of save_tasks returns: the interactive operations
\* propagate the error with `?`, check_and_run_tasks drops it
SaveReturn(o, written) ==
    IF o.name = "pull" THEN Ok("pull", o.now)
    ELSE IF written THEN Ok(o.name, None)
    ELSE Err(o.name, "Failed to write tasks file")

\* the outcomes of fs::write: written, or failed with the file as it was
\* or with the file truncated
WriteOutcomes == IF faults > 0 THEN {"written", "failed", "torn"} ELSE {"written"}

\* save_tasks, second half: fs::write under the lock, then release
SaveWrite(p) ==
    /\ pc[p] = "save_write"
    /\ lock = p
    /\ \E outcome \in WriteOutcomes :
        /\ file' = CASE outcome = "written" -> op[p].json
                      [] outcome = "failed" -> file
                      [] outcome = "torn" -> Torn
        /\ faults' = IF outcome = "written" THEN faults ELSE faults - 1
        /\ ret' = [ret EXCEPT ![p] = SaveReturn(op[p], outcome = "written")]
    /\ lock' = NoLock
    /\ pc' = [pc EXCEPT ![p] = "idle"]
    /\ op' = [op EXCEPT ![p] = NoOp]
    /\ UNCHANGED <<clock, advances, commands, tasks, results, fired>>

\* ------------------------------------------------------------------------
\* Task Store operations
\* ------------------------------------------------------------------------
\* a command arrives: its handler starts with the request o
Request(p, o, at) ==
    /\ pc[p] = "idle"
    /\ commands < MaxCommands
    /\ commands' = commands + 1
    /\ op' = [op EXCEPT ![p] = o]
    /\ pc' = [pc EXCEPT ![p] = at]
    /\ ret' = [ret EXCEPT ![p] = NoRet]
    /\ UNCHANGED <<clock, advances, faults, tasks, results, file, lock, fired>>

\* the Task create_task builds
NewTask(id, schedule_type, enabled, now) ==
    [id |-> id, name |-> "name", agent_id |-> "agent",
     prompt_template |-> <<"Report", "{date}">>,
     schedule_type |-> schedule_type, enabled |-> enabled,
     created_at |-> now, last_run |-> None, next_run |-> None, run_count |-> 0]

\* HashMap::insert: the entry of an id already present is replaced
Insert(ts, task) ==
    [id \in DOMAIN ts \cup {task.id} |-> IF id = task.id THEN task ELSE ts[id]]

\* a removal that empties the map when the id is not stored
RemoveOrClear(ts, id) ==
    IF id \in DOMAIN ts THEN [i \in DOMAIN ts \ {id} |-> ts[i]] ELSE <<>>

\* HashMap::remove
Remove(ts, id) == [i \in DOMAIN ts \ {id} |-> ts[i]]

\* the adds that are about to insert
PendingAdds == {p \in Procs : pc[p] = "add_insert"}

\* add_task up to the lock: next_run is computed from the clock of the
\* call; at most cap tasks are kept
add_task(p, task, cap) ==
    /\ Cardinality(DOMAIN tasks) + Cardinality(PendingAdds) < cap
    /\ Request(p, [NoOp EXCEPT !.name = "add", !.id = task.id,
                     !.val = {[task EXCEPT !.next_run =
                                  calculate_next_run(task.schedule_type, clock)]}],
               "add_insert")

\* the create_task command: the id is the creation time in milliseconds
create_task(p, schedules, cap) ==
    \E s \in schedules :
        add_task(p, NewTask(TaskId(timestamp_millis(clock)), s, TRUE, clock), cap)

CreateTask(p) == create_task(p, Schedules, MaxTasks)

\* add_task called with a task of the caller's making, not enabled
AddTask(p) ==
    add_task(p, NewTask(OtherId, Interval(1), FALSE, clock), MaxTasks)

\* add_task under the lock: insert, then go on to save_tasks
AddInsert(p) ==
    /\ pc[p] = "add_insert"
    /\ lock = NoLock
    /\ \E task \in op[p].val : tasks' = Insert(tasks, task)
    /\ pc' = [pc EXCEPT ![p] = "save"]
    /\ UNCHANGED <<clock, advances, commands, faults, results, file, lock, op, ret, fired>>

\* ids passed to delete_task and toggle_task: the stored ones, the id of a
\* task created at the start, and one that create_task never makes
IdInputs ==
    DOMAIN tasks \cup {OtherId} \cup {TaskId(timestamp_millis(t)) : t \in StartTimes}

\* the delete_task command arrives
DeleteCall(p) ==
    \E id \in IdInputs :
        Request(p, [NoOp EXCEPT !.name = "delete", !.id = id], "delete")

\* delete_task under the lock: remove (what remove returns is dropped),
\* then go on to save_tasks
DeleteTask(p) ==
    /\ pc[p] = "delete"
    /\ lock = NoLock
    /\ tasks' = Remove(tasks, op[p].id)
    /\ op' = [op EXCEPT ![p].val = {tasks[id] : id \in DOMAIN tasks \cap {op[p].id}}]
    /\ pc' = [pc EXCEPT ![p] = "save"]
    /\ UNCHANGED <<clock, advances, commands, faults, results, file, lock, ret, fired>>

\* the toggle_task command arrives
ToggleCall(p) ==
    \E id \in IdInputs, enabled \in BOOLEAN :
        Request(p, [NoOp EXCEPT !.name = "toggle", !.id = id, !.enabled = enabled],
                "toggle")

\* an update that sets the flag and leaves next_run as it was
ToggledFlagOnly(task, enabled, now) == [task EXCEPT !.enabled = enabled]

\* the update toggle_task makes to the task it found
Toggled(task, enabled, now) ==
    [task EXCEPT !.enabled = enabled,
                 !.next_run = IF enabled
                              THEN calculate_next_run(task.schedule_type, now)
                              ELSE None]

\* a toggle_task that saves the map before it reports an unknown id
ToggleTaskSavesFirst(p) ==
    /\ pc[p] = "toggle"
    /\ lock = NoLock
    /\ IF op[p].id \in DOMAIN tasks
       THEN /\ tasks' = [tasks EXCEPT ![op[p].id] = Toggled(@, op[p].enabled, clock)]
            /\ op' = [op EXCEPT ![p].val = {Toggled(tasks[op[p].id], op[p].enabled, clock)}]
       ELSE /\ tasks' = tasks
            /\ op' = op
    /\ pc' = [pc EXCEPT ![p] = "save"]
    /\ UNCHANGED <<clock, advances, commands, faults, results, file, lock, ret, fired>>

\* a toggle_task that does not wait for the lock of the map: it can run
\* between the two halves of another caller's save_tasks
ToggleTaskNoLock(p) ==
    /\ pc[p] = "toggle"
    /\ IF op[p].id \in DOMAIN tasks
       THEN /\ tasks' = [tasks EXCEPT ![op[p].id] = Toggled(@, op[p].enabled, clock)]
            /\ op' = [op EXCEPT ![p].val = {Toggled(tasks[op[p].id], op[p].enabled, clock)}]
            /\ pc' = [pc EXCEPT ![p] = "save"]
            /\ ret' = ret
       ELSE /\ ret' = [ret EXCEPT ![p] = Err("toggle", "Task not found")]
            /\ op' = [op EXCEPT ![p] = NoOp]
            /\ pc' = [pc EXCEPT ![p] = "idle"]
            /\ tasks' = tasks
    /\ UNCHANGED <<clock, advances, commands, faults, results, file, lock, fired>>

\* toggle_task under the lock: update and go on to save_tasks, or return
\* "Task not found"
ToggleTask(p) ==
    /\ pc[p] = "toggle"
    /\ lock = NoLock
    /\ IF op[p].id \in DOMAIN tasks
       THEN /\ tasks' = [tasks EXCEPT ![op[p].id] = Toggled(@, op[p].enabled, clock)]
            /\ op' = [op EXCEPT ![p].val = {Toggled(tasks[op[p].id], op[p].enabled, clock)}]
            /\ pc' = [pc EXCEPT ![p] = "save"]
            /\ ret' = ret
       ELSE /\ ret' = [ret EXCEPT ![p] = Err("toggle", "Task not found")]
            /\ op' = [op EXCEPT ![p] = NoOp]
            /\ pc' = [pc EXCEPT ![p] = "idle"]
            /\ tasks' = tasks
    /\ UNCHANGED <<clock, advances, commands, faults, results, file, lock, fired>>

\* ------------------------------------------------------------------------
\* The due-task pull and the dispatch: check_and_run_tasks
\* ------------------------------------------------------------------------
\* a test that takes a task whose next_run is now as not yet due
IsDueStrict(task, now) ==
    /\ task.enabled
    /\ task.next_run # None
    /\ task.next_run < now

\* a test that does not look at the enabled flag
IsDueAnyTask(task, now) ==
    /\ task.next_run # None
    /\ task.next_run <= now

\* the test of the scan: enabled, next_run present and not after now
IsDue(task, now) ==
    /\ task.enabled
    /\ task.next_run # None
    /\ task.next_run <= now

\* the update of a due task; calculate_next_run reads the clock again
Advanced(task, now, calc_now) ==
    [task EXCEPT !.last_run = now,
                 !.run_count = @ + 1,
                 !.next_run = calculate_next_run(task.schedule_type, calc_now)]

Due(ts, now) == {id \in DOMAIN ts : IsDue(ts[id], now)}

\* the map after the scan
Scanned(ts, now, calc_now) ==
    [id \in DOMAIN ts |->
        IF IsDue(ts[id], now) THEN Advanced(ts[id], now, calc_now) ELSE ts[id]]

\* HashMap::values_mut visits the entries in an order of its own
Orders(S) ==
    {o \in [1..Cardinality(S) -> S] : \A i, j \in 1..Cardinality(S) : o[i] = o[j] => i = j}

\* tasks_to_run: the clones pushed before each update, in visiting order
ToRun(ts, order) == [i \in 1..Len(order) |-> ts[order[i]]]

\* the record of one selection
Selection(task, now) == [id |-> task.id, due |-> task.next_run, now |-> now]

\* check_and_run_tasks is entered: now is read before the lock is awaited
PullStart(p) ==
    /\ pc[p] = "idle"
    /\ Len(fired) < MaxFirings
    /\ op' = [op EXCEPT ![p] = [NoOp EXCEPT !.name = "pull", !.now = clock]]
    /\ pc' = [pc EXCEPT ![p] = "scan"]
    /\ ret' = [ret EXCEPT ![p] = NoRet]
    /\ UNCHANGED <<clock, advances, commands, faults, tasks, results, file, lock, fired>>

\* the scan under the lock; with nothing due the call returns at once,
\* without a save
PullScan(p) ==
    /\ pc[p] = "scan"
    /\ lock = NoLock
    /\ tasks' = Scanned(tasks, op[p].now, clock)
    /\ \E order \in Orders(Due(tasks, op[p].now)) :
        /\ fired' = fired \o [i \in 1..Len(order) |->
                                Selection(tasks[order[i]], op[p].now)]
        /\ IF Len(order) = 0
           THEN /\ pc' = [pc EXCEPT ![p] = "idle"]
                /\ op' = [op EXCEPT ![p] = NoOp]
                /\ ret' = [ret EXCEPT ![p] = Ok("pull", op[p].now)]
           ELSE /\ pc' = [pc EXCEPT ![p] = "exec"]
                /\ op' = [op EXCEPT ![p].to_run = ToRun(tasks, order)]
                /\ ret' = ret
    /\ UNCHANGED <<clock, advances, commands, faults, results, file, lock>>

\* render_prompt: the placeholders become the date and time of the clock
Rendered(token, now) ==
    CASE token = "{date}" -> <<"date", now \div Day>>
      [] token = "{time}" -> <<"time", hour(now), minute(now), second(now)>>
      [] token = "{datetime}" ->
            <<"datetime", now \div Day, hour(now), minute(now), second(now)>>
      [] OTHER -> <<token>>
render_prompt(template, now) == [i \in 1..Len(template) |-> Rendered(template[i], now)]

\* the capacity of the Result Log
MaxResults == 100

\* an add_result that never drops an entry
add_result_unbounded(log, result) == Append(log, result)

\* add_result: push, then drop the oldest entries beyond the capacity
add_result(log, result) ==
    LET pushed == Append(log, result)
    IN  IF Len(pushed) > MaxResults
        THEN SubSeq(pushed, Len(pushed) - MaxResults + 1, Len(pushed))
        ELSE pushed

\* the default of get_results for an absent limit
DefaultLimit == 50

\* iter().rev()
Rev(seq) == [i \in 1..Len(seq) |-> seq[Len(seq) + 1 - i]]
\* take(n): the first n elements, or all of them when there are fewer
Take(seq, n) == SubSeq(seq, 1, IF n < Len(seq) THEN n ELSE Len(seq))

\* a get_results that returns the oldest results first
get_results_oldest_first(log, limit) == Take(log, unwrap_or(limit, DefaultLimit))

\* get_results: the newest `limit` results, the newest first
get_results(log, limit) == Take(Rev(log), unwrap_or(limit, DefaultLimit))

\* the limits passed to the get_task_results command; None is no limit
Limits == {None, 0, 1, 49, 51, 100, 101}

\* the get_task_results command arrives
GetResultsCall(p) ==
    \E limit \in Limits :
        Request(p, [NoOp EXCEPT !.name = "get_results", !.limit = limit], "get_results")

\* get_results: the log is read under its own mutex and is left as it is
GetResults(p) ==
    /\ pc[p] = "get_results"
    /\ ret' = [ret EXCEPT ![p] = OkVal("get_results", get_results(results, op[p].limit))]
    /\ op' = [op EXCEPT ![p] = NoOp]
    /\ pc' = [pc EXCEPT ![p] = "idle"]
    /\ UNCHANGED <<clock, advances, commands, faults, tasks, results, file, lock, fired>>

\* the TaskResult of one dispatch
TaskResult(task, now, prompt, success) ==
    [task_id |-> task.id, task_name |-> task.name, agent_name |-> task.agent_id,
     executed_at |-> now, prompt |-> prompt,
     response |-> IF success THEN "Task executed" ELSE "",
     success |-> success,
     error |-> IF success THEN "" ELSE "executor error"]

\* a dispatch loop that looks the task up again and passes over a task
\* that is no longer stored or no longer enabled
PullExecSkipsGone(p) ==
    /\ pc[p] = "exec"
    /\ LET task == Head(op[p].to_run)
       IN  IF task.id \in DOMAIN tasks /\ tasks[task.id].enabled
           THEN \E success \in BOOLEAN :
                    results' = add_result(results,
                                  TaskResult(task, op[p].now,
                                             render_prompt(task.prompt_template, clock),
                                             success))
           ELSE results' = results
    /\ op' = [op EXCEPT ![p].to_run = Tail(@)]
    /\ pc' = [pc EXCEPT ![p] = IF Len(op[p].to_run) = 1 THEN "save" ELSE "exec"]
    /\ UNCHANGED <<clock, advances, commands, faults, tasks, file, lock, ret, fired>>

\* a dispatch loop that gives up the rest of the batch when the executor
\* fails
PullExecStopsOnError(p) ==
    /\ pc[p] = "exec"
    /\ \E success \in BOOLEAN :
        /\ results' = add_result(results,
                          TaskResult(Head(op[p].to_run), op[p].now,
                                     render_prompt(Head(op[p].to_run).prompt_template, clock),
                                     success))
        /\ op' = [op EXCEPT ![p].to_run = IF success THEN Tail(@) ELSE <<>>]
        /\ pc' = [pc EXCEPT ![p] = IF Len(op[p].to_run) = 1 \/ ~success
                                   THEN "save" ELSE "exec"]
    /\ UNCHANGED <<clock, advances, commands, faults, tasks, file, lock, ret, fired>>

\* one round of the dispatch loop: render, call the executor, record;
\* after the last task the map is saved
PullExec(p) ==
    /\ pc[p] = "exec"
    /\ \E success \in BOOLEAN :
        results' = add_result(results,
                      TaskResult(Head(op[p].to_run), op[p].now,
                                 render_prompt(Head(op[p].to_run).prompt_template, clock),
                                 success))
    /\ op' = [op EXCEPT ![p].to_run = Tail(@)]
    /\ pc' = [pc EXCEPT ![p] = IF Len(op[p].to_run) = 1 THEN "save" ELSE "exec"]
    /\ UNCHANGED <<clock, advances, commands, faults, tasks, file, lock, ret, fired>>

\* the executor call of the round never returns: check_and_run_tasks stays
\* in its dispatch loop, and so does the loop of main that awaits it
ExecHang(p) ==
    /\ pc[p] = "exec"
    /\ pc' = [pc EXCEPT ![p] = "hung"]
    /\ UNCHANGED <<clock, advances, commands, faults, tasks, results, file, lock, op, ret, fired>>

\* the list_tasks command arrives
ListCall(p) == Request(p, [NoOp EXCEPT !.name = "list"], "list")

\* get_tasks under the lock: the clones of the values, in the order of the
\* map
ListTasks(p) ==
    /\ pc[p] = "list"
    /\ lock = NoLock
    /\ \E order \in Orders(DOMAIN tasks) :
        ret' = [ret EXCEPT ![p] = OkVal("list", ToRun(tasks, order))]
    /\ op' = [op EXCEPT ![p] = NoOp]
    /\ pc' = [pc EXCEPT ![p] = "idle"]
    /\ UNCHANGED <<clock, advances, commands, faults, tasks, results, file, lock, fired>>

\* ------------------------------------------------------------------------
\* Specification: the program, one background loop and one command handler
\* ------------------------------------------------------------------------
Next ==
    \/ AdvanceClock
    \/ \E p \in Commanders : CreateTask(p)
    \/ \E p \in Commanders : AddTask(p)
    \/ \E p \in Procs : AddInsert(p)
    \/ \E p \in Commanders : DeleteCall(p)
    \/ \E p \in Procs : DeleteTask(p)
    \/ \E p \in Commanders : ToggleCall(p)
    \/ \E p \in Procs : ToggleTask(p)
    \/ \E p \in Pullers : PullStart(p)
    \/ \E p \in Procs : PullScan(p)
    \/ \E p \in Procs : PullExec(p)
    \/ \E p \in Procs : SaveLock(p)
    \/ \E p \in Procs : SaveWrite(p)

Spec == Init /\ [][Next]_vars

\* ------------------------------------------------------------------------
\* Specification: two callers of check_and_run_tasks over one Interval
\* task, under the simulated clock
\* ------------------------------------------------------------------------
CreateIntervalTask(p) == create_task(p, IntervalSchedules, 1)

NextPull ==
    \/ AdvancePeriod
    \/ \E p \in Commanders : CreateIntervalTask(p)
    \/ \E p \in Procs : AddInsert(p)
    \/ \E p \in BothPullers : PullStart(p)
    \/ \E p \in Procs : PullScan(p)
    \/ \E p \in Procs : PullExec(p)
    \/ \E p \in Procs : SaveLock(p)
    \/ \E p \in Procs : SaveWrite(p)

SpecPull == Init /\ [][NextPull]_vars

\* ------------------------------------------------------------------------
\* Specification: one task of any policy, created and toggled at instants
\* on and off the slots of the policies
\* ------------------------------------------------------------------------
InitWide == \E t \in WideTimes : InitAt(t)

CreateWideTask(p) == create_task(p, WideSchedules, 1)

NextWide ==
    \/ AdvanceClock
    \/ \E p \in Commanders : CreateWideTask(p)
    \/ \E p \in Procs : AddInsert(p)
    \/ \E p \in Commanders : ToggleCall(p)
    \/ \E p \in Procs : ToggleTask(p)
    \/ \E p \in Procs : SaveLock(p)
    \/ \E p \in Procs : SaveWrite(p)

SpecWide == InitWide /\ [][NextWide]_vars

\* ------------------------------------------------------------------------
\* Specification: the Result Log near its capacity, filled by the earlier
\* firings of a task that has since been deleted
\* ------------------------------------------------------------------------
\* lengths of the Result Log at the start
LogLengths == {49, 99, 100}

\* the result of the firing, k minutes before t, of a task deleted since
PastResult(t, k) ==
    TaskResult(NewTask(OtherId, Interval(1), TRUE, 0), t - DurationMinutes(k),
               render_prompt(<<"Report", "{date}">>, t - DurationMinutes(k)), TRUE)

InitLog ==
    \E t \in StartTimes, n \in LogLengths :
        /\ clock = t
        /\ advances = 0
        /\ commands = 0
        /\ faults = 0
        /\ tasks = <<>>
        /\ results = [i \in 1..n |-> PastResult(t, n + 1 - i)]
        /\ file = to_string_pretty(<<>>)
        /\ lock = NoLock
        /\ pc = [p \in Procs |-> "idle"]
        /\ op = [p \in Procs |-> NoOp]
        /\ ret = [p \in Procs |-> NoRet]
        /\ fired = <<>>

\* the policies of the tasks created in this specification
LogSchedules == { Interval(5) }

CreateLogTask(p) == create_task(p, LogSchedules, MaxTasks)

NextLog ==
    \/ AdvanceClock
    \/ \E p \in Commanders : CreateLogTask(p)
    \/ \E p \in Procs : AddInsert(p)
    \/ \E p \in Commanders : GetResultsCall(p)
    \/ \E p \in Procs : GetResults(p)
    \/ \E p \in Pullers : PullStart(p)
    \/ \E p \in Procs : PullScan(p)
    \/ \E p \in Procs : PullExec(p)
    \/ \E p \in Procs : SaveLock(p)
    \/ \E p \in Procs : SaveWrite(p)

SpecLog == InitLog /\ [][NextLog]_vars

\* ------------------------------------------------------------------------
\* Specification: tasks of the four policy variants, created, toggled and
\* fired, across restarts of the process
\* ------------------------------------------------------------------------
ReloadSchedules == { Interval(1), Hourly(30), Daily(9, 0), Weekly(3, 8, 30) }

CreateReloadTask(p) == create_task(p, ReloadSchedules, 1)

NextReload ==
    \/ AdvanceClock
    \/ Restart
    \/ \E p \in Commanders : CreateReloadTask(p)
    \/ \E p \in Procs : AddInsert(p)
    \/ \E p \in Commanders : ToggleCall(p)
    \/ \E p \in Procs : ToggleTask(p)
    \/ \E p \in Pullers : PullStart(p)
    \/ \E p \in Procs : PullScan(p)
    \/ \E p \in Procs : PullExec(p)
    \/ \E p \in Procs : SaveLock(p)
    \/ \E p \in Procs : SaveWrite(p)

SpecReload == Init /\ [][NextReload]_vars

\* ------------------------------------------------------------------------
\* Specification: one task, created, toggled, deleted and fired, with
\* writes of the file that fail
\* ------------------------------------------------------------------------
InitFault ==
    \E t \in StartTimes :
        /\ clock = t
        /\ advances = 0
        /\ commands = 0
        /\ faults = MaxFaults
        /\ tasks = <<>>
        /\ results = <<>>
        /\ file = NoFile
        /\ lock = NoLock
        /\ pc = [p \in Procs |-> "idle"]
        /\ op = [p \in Procs |-> NoOp]
        /\ ret = [p \in Procs |-> NoRet]
        /\ fired = <<>>

FaultSchedules == { Interval(1) }

CreateFaultTask(p) == create_task(p, FaultSchedules, 1)

NextFault ==
    \/ AdvanceClock
    \/ \E p \in Commanders : CreateFaultTask(p)
    \/ \E p \in Procs : AddInsert(p)
    \/ \E p \in Commanders : DeleteCall(p)
    \/ \E p \in Procs : DeleteTask(p)
    \/ \E p \in Commanders : ToggleCall(p)
    \/ \E p \in Procs : ToggleTask(p)
    \/ \E p \in Pullers : PullStart(p)
    \/ \E p \in Procs : PullScan(p)
    \/ \E p \in Procs : PullExec(p)
    \/ \E p \in Procs : SaveLock(p)
    \/ \E p \in Procs : SaveWrite(p)

SpecFault == InitFault /\ [][NextFault]_vars

\* ------------------------------------------------------------------------
\* Specification: the loop of main and a command handler over one task,
\* with executor calls that may never return; every tick comes, and every
\* step that is ready to run is run
\* ------------------------------------------------------------------------
LoopSchedules == { Interval(1), Interval(0) }

CreateLoopTask(p) == create_task(p, LoopSchedules, 1)

NextLoop ==
    \/ AdvanceClock
    \/ \E p \in Commanders : CreateLoopTask(p)
    \/ \E p \in Procs : AddInsert(p)
    \/ \E p \in Commanders : DeleteCall(p)
    \/ \E p \in Procs : DeleteTask(p)
    \/ \E p \in Commanders : ToggleCall(p)
    \/ \E p \in Procs : ToggleTask(p)
    \/ \E p \in Commanders : ListCall(p)
    \/ \E p \in Procs : ListTasks(p)
    \/ \E p \in Pullers : PullStart(p)
    \/ \E p \in Procs : PullScan(p)
    \/ \E p \in Procs : PullExec(p)
    \/ \E p \in Procs : ExecHang(p)
    \/ \E p \in Procs : SaveLock(p)
    \/ \E p \in Procs : SaveWrite(p)

\* the interval of the loop keeps ticking, and the runtime and the fair
\* mutex let every operation that has started take its next step
FairLoop ==
    /\ \A p \in Pullers : WF_vars(PullStart(p))
    /\ \A p \in Procs :
        /\ WF_vars(AddInsert(p))
        /\ WF_vars(DeleteTask(p))
        /\ WF_vars(ToggleTask(p))
        /\ WF_vars(ListTasks(p))
        /\ WF_vars(PullScan(p))
        /\ WF_vars(PullExec(p))
        /\ WF_vars(SaveLock(p))
        /\ WF_vars(SaveWrite(p))

SpecLoop == Init /\ [][NextLoop]_vars /\ FairLoop

\* ------------------------------------------------------------------------
\* Specification: one task of any variant and a loop whose ticks may come
\* long after the task fell due
\* ------------------------------------------------------------------------
OverdueSchedules ==
    { Interval(1), Interval(0), Hourly(30), Daily(9, 0), Weekly(3, 8, 30) }

CreateOverdueTask(p) == create_task(p, OverdueSchedules, 1)

NextOverdue ==
    \/ AdvanceClock
    \/ AdvanceFar
    \/ \E p \in Commanders : CreateOverdueTask(p)
    \/ \E p \in Procs : AddInsert(p)
    \/ \E p \in Pullers : PullStart(p)
    \/ \E p \in Procs : PullScan(p)
    \/ \E p \in Procs : PullExec(p)
    \/ \E p \in Procs : SaveLock(p)
    \/ \E p \in Procs : SaveWrite(p)

SpecOverdue == Init /\ [][NextOverdue]_vars

\* ------------------------------------------------------------------------
\* Properties
\* ------------------------------------------------------------------------
\* the selections of task id, in order
FiredOf(id) == SelectSeq(fired, LAMBDA f : f.id = id)
\* the results of task id, in order
ResultsOf(id) == SelectSeq(results, LAMBDA r : r.task_id = id)
\* the selections a step adds to the log
NewlyFired == {fired'[i] : i \in (Len(fired) + 1)..Len(fired')}
\* a pull has completed at the current instant
PulledNow == \E p \in Procs : ret[p].op = "pull" /\ ret[p].at = clock
AllIdle == \A p \in Procs : pc[p] = "idle"

\* C1: of the invocations of check_and_run_tasks, at most one selects a
\* given task as due for a given next_run value: no two selections in the
\* log have the same task id and the same next_run
C1_SelectedOncePerNextRun ==
    \A i, j \in 1..Len(fired) :
        (i # j /\ fired[i].id = fired[j].id) => fired[i].due # fired[j].due

\* C2: for an Interval task of p >= 1 minutes created at T, under a clock
\* that steps by p with a pull at each step, the k-th selection and the
\* k-th TaskResult of the task are those of instant T + k*p, and once a
\* pull has completed at instant T + k*p the task has been selected
\* exactly k times (and has k results once nothing is running), however
\* the two callers interleave
C2_OneFiringPerPeriod ==
    \A id \in DOMAIN tasks :
        LET t == tasks[id]
            p == DurationMinutes(t.schedule_type.minutes)
        IN  (t.schedule_type.type = "Interval" /\ t.schedule_type.minutes >= 1) =>
              /\ \A k \in 1..Len(FiredOf(id)) :
                    FiredOf(id)[k].now = t.created_at + k * p
              /\ \A k \in 1..Len(ResultsOf(id)) :
                    ResultsOf(id)[k].executed_at = t.created_at + k * p
              /\ PulledNow => Len(FiredOf(id)) * p = clock - t.created_at
              /\ (PulledNow /\ AllIdle) => Len(ResultsOf(id)) * p = clock - t.created_at

\* C2 witness: in the second period, one caller holds the task it selected
\* while the other, entered at the same instant, has completed its pull
C2_Witness ==
    \E id \in DOMAIN tasks :
        /\ tasks[id].schedule_type.type = "Interval"
        /\ tasks[id].schedule_type.minutes >= 1
        /\ clock = tasks[id].created_at + 2 * DurationMinutes(tasks[id].schedule_type.minutes)
        /\ pc["loop"] = "exec"
        /\ op["loop"].now = clock
        /\ ret["loop2"] = Ok("pull", clock)
        /\ Len(FiredOf(id)) = 2

\* C3: every stored task has next_run absent exactly when it is not enabled
C3_NextRunAbsentIffDisabled ==
    \A id \in DOMAIN tasks : (tasks[id].next_run = None) <=> ~tasks[id].enabled

\* C4: the run_count of a task never decreases, it grows by exactly 1 in
\* the step that selects the task as due, and no other step changes it
C4_RunCount ==
    [][\A id \in DOMAIN tasks \cap DOMAIN tasks' :
          /\ tasks'[id].run_count >= tasks[id].run_count
          /\ tasks'[id].run_count =
                IF \E f \in NewlyFired : f.id = id
                THEN tasks[id].run_count + 1
                ELSE tasks[id].run_count]_vars

\* C5: a scan leaves every task that is not enabled as it is and does not
\* select it, whatever its next_run and last_run; every TaskResult that is
\* appended is for a task that was enabled when it was selected
C5_DisabledNeverSelected ==
    [][/\ \A p \in Procs :
            (pc[p] = "scan" /\ pc'[p] # "scan") =>
                \A id \in DOMAIN tasks :
                    ~tasks[id].enabled =>
                        /\ id \in DOMAIN tasks'
                        /\ tasks'[id] = tasks[id]
                        /\ \A i \in 1..Len(op'[p].to_run) : op'[p].to_run[i].id # id
                        /\ \A f \in NewlyFired : f.id # id
       /\ results' # results =>
            \E p \in Procs :
                /\ pc[p] = "exec"
                /\ Head(op[p].to_run).enabled
                /\ results' = Append(results, results'[Len(results')])
                /\ results'[Len(results')].task_id = Head(op[p].to_run).id]_vars

\* C5 witness: a pull has completed at an instant at which a task that is
\* not enabled had a next_run that had come, and the task never ran
C5_Witness ==
    \E id \in DOMAIN tasks :
        /\ ~tasks[id].enabled
        /\ tasks[id].next_run # None
        /\ ret["loop"].op = "pull"
        /\ tasks[id].next_run <= ret["loop"].at
        /\ tasks[id].run_count = 0
        /\ tasks[id].last_run = None

\* C6: toggle_task on a stored task with enabled = false leaves it not
\* enabled with next_run absent; with enabled = true it leaves it enabled
\* with, for a policy with in-range fields, a next_run after the instant
\* of the toggle
C6_Toggle ==
    [][\A p \in Procs :
          (pc[p] = "toggle" /\ pc'[p] # "toggle" /\ op[p].id \in DOMAIN tasks) =>
              /\ op[p].id \in DOMAIN tasks'
              /\ tasks'[op[p].id].enabled = op[p].enabled
              /\ ~op[p].enabled => tasks'[op[p].id].next_run = None
              /\ (op[p].enabled /\ InRange(tasks[op[p].id].schedule_type)) =>
                    /\ tasks'[op[p].id].next_run # None
                    /\ tasks'[op[p].id].next_run > clock]_vars

\* the instant t is the slot of the Hourly, Daily or Weekly policy s
OnSlot(s, t) ==
    /\ second(t) = 0
    /\ t % Second = 0
    /\ minute(t) = s.at_minute
    /\ s.type \in {"Daily", "Weekly"} => hour(t) = s.at_hour
    /\ s.type = "Weekly" => num_days_from_sunday(t) = s.day

\* C6 witness: a task with an in-range Daily policy has been toggled on
\* at the very instant of its slot and got the slot of the next day
C6_Witness ==
    \E p \in Procs :
        /\ pc[p] = "save"
        /\ op[p].name = "toggle"
        /\ op[p].enabled
        /\ \E t \in op[p].val :
            /\ t.schedule_type.type = "Daily"
            /\ InRange(t.schedule_type)
            /\ OnSlot(t.schedule_type, clock)
            /\ t.next_run = clock + DurationDays(1)
            /\ tasks[t.id] = t

\* C7: toggle_task with an id that is not stored returns "Task not found",
\* changes no task and starts no write of the file
C7_ToggleUnknown ==
    [][\A p \in Procs :
          (pc[p] = "toggle" /\ pc'[p] # "toggle" /\ op[p].id \notin DOMAIN tasks) =>
              /\ ret'[p] = Err("toggle", "Task not found")
              /\ tasks' = tasks
              /\ file' = file
              /\ lock' = lock
              /\ pc'[p] = "idle"]_vars

\* C7 witness: "Task not found" has been returned while a task is stored
C7_Witness ==
    \E p \in Procs :
        /\ ret[p] = Err("toggle", "Task not found")
        /\ pc[p] = "idle"
        /\ DOMAIN tasks # {}

\* C8: add_task with an id that is already stored fails: the store is left
\* as it is and the call does not go on to save and return the task
C8_AddDuplicateFails ==
    [][\A p \in Procs :
          (pc[p] = "add_insert" /\ pc'[p] # "add_insert" /\ op[p].id \in DOMAIN tasks) =>
              /\ tasks' = tasks
              /\ pc'[p] # "save"]_vars

\* C9: no task whose policy has an out-of-range field is ever stored
C9_OutOfRangeRejected ==
    \A id \in DOMAIN tasks : InRange(tasks[id].schedule_type)

\* C10: delete_task removes the id and nothing else, so that with an id
\* that is not stored the store is left as it is and a second removal of
\* the same id changes nothing; the call goes on to save and, the write
\* of the file succeeding, returns Ok
C10_RemoveIdempotent ==
    [][\A p \in Procs :
          /\ (pc[p] = "delete" /\ pc'[p] # "delete") =>
                /\ DOMAIN tasks' = DOMAIN tasks \ {op[p].id}
                /\ \A id \in DOMAIN tasks' : tasks'[id] = tasks[id]
                /\ op[p].id \notin DOMAIN tasks => tasks' = tasks
                /\ Remove(tasks', op[p].id) = tasks'
                /\ pc'[p] = "save"
          /\ ret'[p].op = "delete" => ret'[p].ok]_vars

\* C10 witness: delete_task has run with an id that was not stored while
\* another task is stored, and has returned Ok
C10_Witness ==
    \E p \in Procs :
        /\ ret[p] = Ok("delete", None)
        /\ DOMAIN tasks # {}
        /\ file = to_string_pretty(tasks)
        /\ commands = 2

\* the period of an Hourly, Daily or Weekly policy
Period(s) ==
    CASE s.type = "Hourly" -> DurationHours(1)
      [] s.type = "Daily" -> DurationDays(1)
      [] s.type = "Weekly" -> DurationDays(7)

\* the tasks whose next_run the step computes, in add_task or in
\* toggle_task with enabled = true, from the clock of the step
Computed(p) ==
    IF \/ pc[p] = "idle" /\ pc'[p] = "add_insert"
       \/ pc[p] = "toggle" /\ pc'[p] = "save" /\ op[p].enabled
    THEN op'[p].val
    ELSE {}

\* C11: for every policy with in-range fields and every reference time,
\* the next run that is computed is after the reference time, and a slot
\* equal to the reference time is pushed forward by one full period
C11_NextRunAfterNow ==
    [][\A p \in Procs : \A task \in Computed(p) :
          InRange(task.schedule_type) =>
              /\ task.next_run > clock
              /\ (task.schedule_type.type # "Interval"
                    /\ OnSlot(task.schedule_type, clock)) =>
                        task.next_run = clock + Period(task.schedule_type)]_vars

\* C11 witness: add_task has computed the next run of an in-range Weekly
\* policy at the very instant of its slot, and it is one week later
C11_Witness ==
    \E p \in Procs :
        /\ pc[p] = "add_insert"
        /\ \E task \in op[p].val :
            /\ task.schedule_type.type = "Weekly"
            /\ InRange(task.schedule_type)
            /\ OnSlot(task.schedule_type, task.created_at)
            /\ task.next_run = task.created_at + DurationDays(7)

\* the first instant after now that is hour h, minute m, second 0 of a day
EarliestDaily(s, now) ==
    LET slot == (now \div Day) * Day + s.at_hour * Hour + s.at_minute * Minute
    IN  IF slot > now THEN slot ELSE slot + Day

\* C12: for a Daily policy and any reference time, the next run that is
\* computed is the earliest instant not before the reference time whose
\* hour and minute are those of the policy and whose second is 0, and the
\* one of the next day when the reference time is that instant
C12_DailyEarliestSlot ==
    [][\A p \in Procs : \A task \in Computed(p) :
          (task.schedule_type.type = "Daily" /\ InRange(task.schedule_type)) =>
              task.next_run = EarliestDaily(task.schedule_type, clock)]_vars

\* C13: the Result Log never holds more than 100 results, and an append
\* adds the result at the end, keeps the others in their order and, with
\* 100 results held, drops the oldest one: the log holds the newest
\* min(n, 100) of the n results appended so far, in insertion order
C13_LogHoldsNewest ==
    [][/\ Len(results) <= 100
       /\ Len(results') <= 100
       /\ results' # results =>
            /\ Len(results') >= 1
            /\ results' = IF Len(results) < 100
                          THEN Append(results, results'[Len(results')])
                          ELSE Append(Tail(results), results'[Len(results')])]_vars

\* C13 witness: the log was full, one result has been appended, and the
\* log holds 100 results again, without the one that was the oldest
C13_Witness ==
    /\ Len(results) = 100
    /\ results[100].task_id # OtherId
    /\ \E t \in StartTimes : results[1] = PastResult(t, 99)

\* C14: get_results returns min(limit, length) results, the newest first,
\* with 50 for an absent limit, and leaves the log as it is
C14_QueryNewestFirst ==
    [][\A p \in Procs :
          (pc[p] = "get_results" /\ pc'[p] = "idle") =>
              LET limit == IF op[p].limit = None THEN 50 ELSE op[p].limit
                  n == IF limit < Len(results) THEN limit ELSE Len(results)
              IN  /\ ret'[p].op = "get_results"
                  /\ ret'[p].ok
                  /\ Len(ret'[p].val) = n
                  /\ \A i \in 1..n : ret'[p].val[i] = results[Len(results) + 1 - i]
                  /\ results' = results]_vars

\* C14 witness: with 100 results held, the last of them appended by a
\* firing, a query with no limit has returned 50 results that begin with
\* that last one
C14_Witness ==
    \E p \in Procs :
        /\ ret[p].op = "get_results"
        /\ Len(results) = 100
        /\ results[100].task_id # OtherId
        /\ Len(ret[p].val) = 50
        /\ ret[p].val[1] = results[100]

\* C15: every task selected as due gets exactly one TaskResult, whether
\* the executor succeeds or fails: the results are those of the selections
\* made so far, in their order, less the ones still waiting in the batch;
\* a failure gives success = false, an empty response and an error, and a
\* result has an error exactly when success is false
C15_OneResultPerSelection ==
    /\ \A p \in Pullers : Len(results) + Len(op[p].to_run) = Len(fired)
    /\ \A i \in 1..Len(results) :
        /\ results[i].task_id = fired[i].id
        /\ results[i].executed_at = fired[i].now
        /\ (results[i].error # "") <=> ~results[i].success
        /\ ~results[i].success => results[i].response = ""

\* C15 witness: two tasks were selected in one tick, the executor failed
\* for the first, and the second has its result all the same
C15_Witness ==
    /\ Len(results) = 2
    /\ ~results[1].success
    /\ results[2].task_id # results[1].task_id
    /\ results[2].executed_at = results[1].executed_at
    /\ \A p \in Pullers : pc[p] = "idle"

\* C16: for an Interval{minutes: 5} task created at T, the only task
\* stored, a pull at T + 5 minutes (the clock standing still during the
\* pull) selects exactly that task, and the snapshot it hands to the
\* dispatch is already advanced: last_run = T + 5, run_count = 1 and
\* next_run = T + 10, the values the stored task has after the pull
C16_PullReturnsAdvancedSnapshot ==
    [][\A p \in Procs : \A id \in DOMAIN tasks :
          ( /\ pc[p] = "scan" /\ pc'[p] # "scan"
            /\ DOMAIN tasks = {id}
            /\ tasks[id].schedule_type = Interval(5)
            /\ tasks[id].enabled
            /\ tasks[id].run_count = 0
            /\ op[p].now = tasks[id].created_at + DurationMinutes(5)
            /\ clock = op[p].now ) =>
              /\ Len(op'[p].to_run) = 1
              /\ op'[p].to_run[1].id = id
              /\ op'[p].to_run[1].last_run = tasks[id].created_at + DurationMinutes(5)
              /\ op'[p].to_run[1].run_count = 1
              /\ op'[p].to_run[1].next_run = tasks[id].created_at + DurationMinutes(10)
              /\ op'[p].to_run[1] = tasks'[id]]_vars

\* C17: the file written from a Task Store loads as the same store, the
\* same ids with field-identical tasks, for the four policy variants: a
\* restart with the file saved from the current store leaves the store
\* as it is, and a restart with no file gives the empty store
C17_SaveReloadRoundTrip ==
    [][/\ DOMAIN load_tasks(to_string_pretty(tasks')) = DOMAIN tasks'
       /\ \A id \in DOMAIN tasks' :
            load_tasks(to_string_pretty(tasks'))[id] = tasks'[id]
       /\ (ret'["cmd"].op = "new" /\ ret["cmd"].op # "new") =>
            /\ file = to_string_pretty(tasks) => tasks' = tasks
            /\ file = NoFile => tasks' = <<>>]_vars

\* C17 witness: the process has been started again and holds a Weekly
\* task as it was saved, after the task had fired and had then been
\* toggled off
C17_Witness ==
    /\ ret["cmd"].op = "new"
    /\ file = to_string_pretty(tasks)
    /\ \E id \in DOMAIN tasks :
        /\ tasks[id].schedule_type.type = "Weekly"
        /\ tasks[id].last_run # None
        /\ tasks[id].run_count > 0
        /\ ~tasks[id].enabled
        /\ tasks[id].next_run = None

\* C18: when the write of the file fails in add_task, delete_task or
\* toggle_task, the caller gets the error and the change made to the
\* store is kept; when it fails in the save that ends a batch of
\* check_and_run_tasks, the call returns as usual, the loop can go on,
\* and the advances made by the scan are kept
C18_WriteFailure ==
    [][\A p \in Procs :
          (pc[p] = "save_write" /\ pc'[p] = "idle" /\ faults' < faults) =>
              /\ tasks' = tasks
              /\ op[p].name \in {"add", "delete", "toggle"} =>
                    /\ ~ret'[p].ok
                    /\ ret'[p].op = op[p].name
                    /\ ret'[p].err = "Failed to write tasks file"
                    /\ op[p].name = "add" => op[p].id \in DOMAIN tasks'
                    /\ op[p].name = "delete" => op[p].id \notin DOMAIN tasks'
                    /\ op[p].name = "toggle" =>
                            /\ op[p].id \in DOMAIN tasks'
                            /\ tasks'[op[p].id].enabled = op[p].enabled
              /\ op[p].name = "pull" =>
                    /\ ret'[p] = Ok("pull", op[p].now)
                    /\ \A i \in 1..Len(fired) :
                          (fired[i].now = op[p].now /\ fired[i].id \in DOMAIN tasks') =>
                              /\ tasks'[fired[i].id].run_count >= 1
                              /\ tasks'[fired[i].id].last_run = op[p].now
                              /\ tasks'[fired[i].id].next_run # fired[i].due]_vars

\* C18 witness: toggle_task has returned the write error, the task is
\* stored as toggled, and the file is not the store
C18_Witness ==
    /\ ret["cmd"] = Err("toggle", "Failed to write tasks file")
    /\ \E id \in DOMAIN tasks : ~tasks[id].enabled /\ tasks[id].next_run = None
    /\ file # to_string_pretty(tasks)

\* C19: no caller holds the lock of the Task Store while it renders a
\* prompt, calls the executor or writes the file
C19_NoIoUnderLock ==
    \A p \in Procs : pc[p] \in {"exec", "save_write"} => lock # p

\* C20: the batch of a tick is fixed by the scan: a toggle_task or
\* delete_task that runs while the batch is dispatched changes no batch,
\* no result and no run_count or last_run of a task that stays stored;
\* every round of the dispatch records the result of the task at the head
\* of the batch, whatever the store holds by then; and a scan selects only
\* tasks that are stored and enabled when it runs
C20_BatchFixedByScan ==
    [][/\ \A p \in Procs :
            (pc[p] \in {"toggle", "delete"} /\ pc'[p] # pc[p]) =>
                /\ \A q \in Procs \ {p} :
                        op'[q].to_run = op[q].to_run /\ pc'[q] = pc[q]
                /\ results' = results
                /\ fired' = fired
                /\ \A id \in DOMAIN tasks \cap DOMAIN tasks' :
                        /\ tasks'[id].run_count = tasks[id].run_count
                        /\ tasks'[id].last_run = tasks[id].last_run
       /\ \A q \in Procs :
            (pc[q] = "exec" /\ op'[q] # op[q]) =>
                /\ Len(op[q].to_run) >= 1
                /\ op'[q].to_run = Tail(op[q].to_run)
                /\ Len(results') = Len(results) + 1
                /\ results'[Len(results')].task_id = Head(op[q].to_run).id
                /\ results'[Len(results')].executed_at = op[q].now
                /\ tasks' = tasks
       /\ \A q \in Procs :
            (pc[q] = "scan" /\ pc'[q] = "exec") =>
                \A i \in 1..Len(op'[q].to_run) :
                    /\ op'[q].to_run[i].id \in DOMAIN tasks
                    /\ tasks[op'[q].to_run[i].id].enabled]_vars

\* C20 witness: delete_task has removed a selected task and returned
\* while the dispatch of that task is still to come
C20_Witness ==
    /\ pc["loop"] = "exec"
    /\ Head(op["loop"].to_run).id \notin DOMAIN tasks
    /\ ret["cmd"] = Ok("delete", None)

\* an executor call has hung
Hung == \E p \in Procs : pc[p] = "hung"
\* a stored task with an in-range policy is due at the current instant
DueNow ==
    \E id \in DOMAIN tasks :
        InRange(tasks[id].schedule_type) /\ IsDue(tasks[id], clock)

\* C21: while an executor call never returns, every command that has
\* started completes, and a task that is due is still detected by a later
\* tick (it does not stay due for ever)
C21_HungExecutorStallsNothing ==
    /\ \A p \in Commanders : (Hung /\ pc[p] # "idle") ~> (pc[p] = "idle")
    /\ (Hung /\ DueNow /\ Len(fired) < MaxFirings) ~> ~DueNow

\* a stored task is due at the current instant
DueAtClock == \E id \in DOMAIN tasks : IsDue(tasks[id], clock)

\* C22: with ticks that keep coming and executor calls that return, the
\* cycle of an enabled task has no end: a scan selects every task that is
\* due at the tick's time and leaves it enabled with a next_run after the
\* current time, and a task that is due is selected by a later tick unless
\* it is removed or disabled first
C22_EnabledTaskKeepsFiring ==
    /\ [][\A p \in Procs :
            (pc[p] = "scan" /\ pc'[p] # "scan") =>
                \A id \in DOMAIN tasks :
                    IsDue(tasks[id], op[p].now) =>
                        /\ Selection(tasks[id], op[p].now) \in NewlyFired
                        /\ tasks'[id].enabled
                        /\ tasks'[id].next_run # None
                        /\ tasks'[id].next_run > clock]_vars
    /\ \A n \in 0..(MaxFirings - 1) :
        <>Hung \/ ((DueAtClock /\ Len(fired) = n) ~> (Len(fired) > n \/ ~DueAtClock))

\* the callers that hold a serialized map they have not written yet
Snapshots == {p \in Procs : pc[p] = "save_write"}

\* C23: with no write failure and under every interleaving of add, remove,
\* toggle and ticks, every write puts into the file the map as the store
\* holds it at that instant, which is the snapshot the writer serialized;
\* at most one snapshot is waiting to be written at any time, so writes
\* follow the order of their snapshots; and whenever no operation is
\* running the file is the current map (or is still missing, with an empty
\* map that nothing has changed)
C23_FileFollowsStore ==
    /\ [][file' # file =>
            /\ tasks' = tasks
            /\ file' = to_string_pretty(tasks)
            /\ \E p \in Snapshots : file' = op[p].json /\ lock = p]_vars
    /\ [](Cardinality(Snapshots) <= 1)
    /\ [](AllIdle => \/ file = to_string_pretty(tasks)
                     \/ file = NoFile /\ tasks = <<>>)

\* C23 witness: while the tick that fired a task is still in its dispatch,
\* its own save not yet made, a toggle_task of the command handler has
\* completed and the file already holds the map with the tick's advance
C23_Witness ==
    /\ pc["loop"] = "exec"
    /\ ret["cmd"].op = "toggle" /\ ret["cmd"].ok
    /\ pc["cmd"] = "idle"
    /\ file = to_string_pretty(tasks)
    /\ \E id \in DOMAIN tasks :
        /\ tasks[id].run_count = 1
        /\ tasks[id].last_run = op["loop"].now

\* the selections of task id that a step adds to the log
NewlyFiredOf(id) == {i \in (Len(fired) + 1)..Len(fired') : fired'[i].id = id}

\* C24: however far the clock has passed the next_run of a task, one pull
\* selects the task once, adds 1 to its run_count and sets its next_run
\* from the current time, no further than one period ahead of it; a task
\* that is not due is left alone; and after the pull the next_run of every
\* enabled task is after the pull time
C24_OneFiringHoweverOverdue ==
    [][\A p \in Procs :
          (pc[p] = "scan" /\ pc'[p] # "scan") =>
              \A id \in DOMAIN tasks :
                  /\ IsDue(tasks[id], op[p].now) =>
                        /\ Cardinality(NewlyFiredOf(id)) = 1
                        /\ tasks'[id].run_count = tasks[id].run_count + 1
                        /\ tasks'[id].next_run >= clock
                        /\ tasks'[id].next_run <= clock + PeriodOf(tasks[id].schedule_type)
                  /\ ~IsDue(tasks[id], op[p].now) =>
                        /\ NewlyFiredOf(id) = {}
                        /\ tasks'[id] = tasks[id]
                  /\ tasks'[id].enabled => tasks'[id].next_run > op[p].now]_vars
====
